---- MODULE Spec2Model ----
(***************************************************************************)
(* A model of PyGOPHER (src/pygopher/main.py, src/pygopher/utils.py):      *)
(*   - the two output parsers of utils.py (SpecParse),                     *)
(*   - PGopher.simulate with its temporary file and two runs (SpecSim),    *)
(*   - the Simulation / Molecule constructors with Python's shared         *)
(*     default-argument objects (SpecCfg),                                 *)
(*   - Molecule construction, to_element and PGopher.__init__ (SpecDoc).   *)
(* Python strings are sequences of one-character strings; a dict is a      *)
(* function from its keys; an lxml element is a record                     *)
(* [tag, attrs, children].                                                 *)
(***************************************************************************)
EXTENDS Integers, Sequences, FiniteSets, TLC

VARIABLES
    \* ---- SpecParse
    text,        \* str(text_stream): the text handed to a parser
    parsed,      \* what the parser call produced (a table or an exception)
    \* ---- SpecSim
    pc,          \* where PGopher.simulate is
    env,         \* the host: is pgo in PATH, what the two runs do
    filepath,    \* simulate's filepath: "none", "temp", "user"
    temp,        \* simulate's local flag temp
    files,       \* which of the files "temp", "user" exist on disk
    runs,        \* the invocations made so far, in order
    linelist_df, \* simulate's local linelist_df
    q_df,        \* simulate's local q_df
    outcome,     \* how the simulate call ended
    \* ---- SpecCfg
    heap,        \* the dict objects, by identity
    configs,     \* the Simulation / Molecule objects returned so far
    call,        \* the latest constructor call: its arguments and result
    \* ---- SpecDoc
    mol_in,      \* the arguments of the Molecule(...) call
    mol,         \* the Molecule object (or the exception raised)
    mol_elem,    \* Molecule.to_element()'s result
    sim_elem,    \* Simulation.to_element()'s result
    doc          \* PGopher.simulation after PGopher.__init__

parseVars == <<text, parsed>>
simVars == <<pc, env, filepath, temp, files, runs, linelist_df, q_df, outcome>>
cfgVars == <<heap, configs, call>>
docVars == <<mol_in, mol, mol_elem, sim_elem, doc>>
vars == <<parseVars, simVars, cfgVars, docVars>>

(***************************************************************************)
(* Bounds of the model.                                                    *)
(***************************************************************************)
\* the number of lines of an input text
MaxLines == 6
\* the number of constructor calls (Simulation, Molecule, from_rng) in a run
MaxCalls == 2

(***************************************************************************)
(* Python str and list operations, as utils.py uses them.                  *)
(***************************************************************************)
None == "None"
NoneCell == <<"<None>">>

Min(a, b) == IF a < b THEN a ELSE b
Max(a, b) == IF a > b THEN a ELSE b

\* s[i:] of Python, with the 1-based first index i
Drop(s, i) == IF i > Len(s) THEN <<>> ELSE SubSeq(s, i, Len(s))

\* does pat occur in s at the 1-based position i
OccursAt(s, pat, i) ==
    /\ i + Len(pat) - 1 <= Len(s)
    /\ \A k \in 1..Len(pat) : s[i + k - 1] = pat[k]

\* Python's `pat in s`
Contains(s, pat) == \E i \in 1..(Len(s) + 1) : OccursAt(s, pat, i)

\* Python's s.split(sep) for a non-empty sep: left to right, non-overlapping,
\* always at least one piece
RECURSIVE SplitFrom(_, _, _, _)
SplitFrom(s, sep, i, cur) ==
    IF i > Len(s) THEN <<cur>>
    ELSE IF OccursAt(s, sep, i)
         THEN <<cur>> \o SplitFrom(s, sep, i + Len(sep), <<>>)
         ELSE SplitFrom(s, sep, i + 1, Append(cur, s[i]))

Split(s, sep) == SplitFrom(s, sep, 1, <<>>)

\* Python's s.split(): on runs of whitespace, no empty pieces
RECURSIVE SplitWSFrom(_, _, _)
SplitWSFrom(s, i, cur) ==
    IF i > Len(s) THEN (IF cur = <<>> THEN <<>> ELSE <<cur>>)
    ELSE IF s[i] = " "
         THEN (IF cur = <<>> THEN <<>> ELSE <<cur>>) \o SplitWSFrom(s, i + 1, <<>>)
         ELSE SplitWSFrom(s, i + 1, Append(cur, s[i]))

SplitWS(s) == SplitWSFrom(s, 1, <<>>)

\* Python's s.replace(symbol, "") for a one-character symbol
RECURSIVE Replace(_, _)
Replace(s, symbol) ==
    IF s = <<>> THEN <<>>
    ELSE (IF Head(s) = symbol THEN <<>> ELSE <<Head(s)>>) \o Replace(Tail(s), symbol)

\* Python's "".join(pieces)
RECURSIVE Join(_)
Join(pieces) == IF pieces = <<>> THEN <<>> ELSE Head(pieces) \o Join(Tail(pieces))

\* Python's sep.join(pieces)
RECURSIVE JoinWith(_, _)
JoinWith(pieces, sep) ==
    IF pieces = <<>> THEN <<>>
    ELSE IF Len(pieces) = 1 THEN Head(pieces)
    ELSE Head(pieces) \o sep \o JoinWith(Tail(pieces), sep)

(***************************************************************************)
(* pandas.DataFrame(data, columns=labels) for a list of lists: the frame   *)
(* is as wide as the longest row, shorter rows are filled with None, and   *)
(* the construction raises ValueError when that width is not the number of *)
(* labels. An empty data list gives an empty frame with the labels.        *)
(***************************************************************************)
RowWidth(data) ==
    IF data = <<>> THEN 0
    ELSE CHOOSE w \in {Len(data[i]) : i \in 1..Len(data)} :
            \A i \in 1..Len(data) : Len(data[i]) <= w

PadRow(row, width) ==
    [j \in 1..width |-> IF j <= Len(row) THEN row[j] ELSE NoneCell]

Raised(exc) == [ok |-> FALSE, exc |-> exc]

DataFrame(data, labels) ==
    IF data = <<>>
    THEN [ok |-> TRUE, columns |-> labels, rows |-> <<>>]
    ELSE IF RowWidth(data) # Len(labels)
    THEN Raised("ValueError")
    ELSE [ok |-> TRUE, columns |-> labels,
          rows |-> [i \in 1..Len(data) |-> PadRow(data[i], Len(labels))]]

(***************************************************************************)
(* utils.parse_linelist                                                    *)
(***************************************************************************)
EscapedNewline == <<"\\", "n">>
LineListMarker == <<"L", "i", "n", "e", " ", "l", "i", "s", "t">>
Comma == <<",">>

\* the loop of lines 78-80: the 0-based index of the first line holding the
\* marker; without one the loop variable is left at the last line
MarkerIndexFromZero(lines) ==
    IF \E i \in 1..Len(lines) : Contains(lines[i], LineListMarker)
    THEN (CHOOSE i \in 1..Len(lines) :
            /\ Contains(lines[i], LineListMarker)
            /\ \A j \in 1..(i - 1) : ~Contains(lines[j], LineListMarker)) - 1
    ELSE 0

MarkerIndex(lines) ==
    IF \E i \in 1..Len(lines) : Contains(lines[i], LineListMarker)
    THEN (CHOOSE i \in 1..Len(lines) :
            /\ Contains(lines[i], LineListMarker)
            /\ \A j \in 1..(i - 1) : ~Contains(lines[j], LineListMarker)) - 1
    ELSE Len(lines) - 1

\* lines 85-86: every backslash, then every double quote, removed
CleanLabel(name) == Replace(Replace(name, "\\"), "\"")

\* line 91: line[-3:-1] = ["".join(line[-3:-1])], with Python's slice bounds
BranchRejoin(line) ==
    LET n == Len(line)
        start == Max(n - 3, 0)
        stop == Max(Max(n - 1, 0), start)
    IN  SubSeq(line, 1, start)
          \o <<Join(SubSeq(line, start + 1, stop))>>
          \o SubSeq(line, stop + 1, n)

\* data[:-2]
DropLastOne(data) == SubSeq(data, 1, Len(data) - 1)

DropLastTwo(data) == SubSeq(data, 1, Len(data) - 2)

parse_linelist(text_stream) ==
    LET lines0 == Split(text_stream, EscapedNewline)
        lines == Drop(lines0, MarkerIndex(lines0) + 2)
    IN  IF lines = <<>> THEN Raised("IndexError")
        ELSE LET split == Split(Head(lines), Comma)
                 labels == [i \in 1..Len(split) |-> CleanLabel(split[i])]
                 rest == Tail(lines)
                 data == [i \in 1..Len(rest) |-> BranchRejoin(Split(rest[i], Comma))]
             IN  DataFrame(DropLastTwo(data), labels)

(***************************************************************************)
(* utils.parse_partition_func                                              *)
(***************************************************************************)
TKMarker == <<"T", "/", "K">>
LevelsMarker == <<"l", "e", "v", "e", "l", "s">>

\* the loop of lines 102-110 over the lines from i on; st = [read, labels, data]
RECURSIVE PartitionScan(_, _, _)
PartitionScan(lines, i, st) ==
    IF i > Len(lines) THEN st
    ELSE LET line == lines[i]
             data1 == IF st.read /\ ~Contains(line, LevelsMarker)
                      THEN Append(st.data, SplitWS(line))
                      ELSE st.data
             st1 == IF Contains(line, TKMarker)
                    THEN [read |-> TRUE,
                          labels |-> <<SubSeq(SplitWS(line), 1, Min(3, Len(SplitWS(line))))>>,
                          data |-> data1]
                    ELSE [st EXCEPT !.data = data1]
         IN  PartitionScan(lines, i + 1, st1)

\* labels is <<>> while the name is unbound, <<the list>> once assigned
parse_partition_func(text_stream) ==
    LET lines == Split(text_stream, EscapedNewline)
        st == PartitionScan(lines, 1, [read |-> FALSE, labels |-> <<>>, data |-> <<>>])
    IN  IF st.labels = <<>> THEN Raised("UnboundLocalError")
        ELSE DataFrame(st.data, st.labels[1])

(***************************************************************************)
(* SpecParse: a captured text, and one parser applied to it.               *)
(***************************************************************************)
LinelistLines ==
    { <<"L", "i", "n", "e", " ", "l", "i", "s", "t">>,
      <<"\"", "A", "\"", ",", "\\", "B", ",", "C">>,
      <<"1", ",", "2", ",", "3", ",", "4">>,
      <<"t", ",", "u">> }

PartitionLines ==
    { <<"T", "/", "K", " ", " ", "Q", " ", "R", " ", "S">>,
      <<"1", " ", "2", " ", "3">>,
      <<"l", "e", "v", "e", "l", "s">> }

TextsOf(lineSet) ==
    { JoinWith(ls, EscapedNewline) :
        ls \in UNION { [1..k -> lineSet] : k \in 1..MaxLines } }

Texts == TextsOf(LinelistLines) \cup TextsOf(PartitionLines)

NotParsed == [fn |-> "none"]

ParseIdle == text = <<>> /\ parsed = NotParsed

ParseLinelist ==
    /\ parsed = NotParsed
    /\ parsed' = [fn |-> "parse_linelist", result |-> parse_linelist(text)]
    /\ UNCHANGED <<text, simVars, cfgVars, docVars>>

ParsePartitionFunc ==
    /\ parsed = NotParsed
    /\ parsed' = [fn |-> "parse_partition_func", result |-> parse_partition_func(text)]
    /\ UNCHANGED <<text, simVars, cfgVars, docVars>>


(***************************************************************************)
(* The parts of the state a specification does not use.                    *)
(***************************************************************************)
SimIdle ==
    /\ pc = "idle" /\ env = <<>> /\ filepath = "none" /\ temp = FALSE
    /\ files = {} /\ runs = <<>> /\ linelist_df = None /\ q_df = None
    /\ outcome = "none"

CfgIdle == heap = <<>> /\ configs = <<>> /\ call = <<>>

DocIdle ==
    /\ mol_in = <<>> /\ mol = None /\ mol_elem = None /\ sim_elem = None
    /\ doc = None

InitParse ==
    /\ text \in Texts
    /\ parsed = NotParsed
    /\ SimIdle /\ CfgIdle /\ DocIdle

NextParse == ParseLinelist \/ ParsePartitionFunc

SpecParse == InitParse /\ [][NextParse]_vars


(***************************************************************************)
(* Claims about the parsers (SpecParse).                                   *)
(***************************************************************************)
HasMarker(lines, marker) == \E i \in 1..Len(lines) : Contains(lines[i], marker)

\* the 1-based position of the first line that contains "Line list"
FirstMarkerLine(lines) ==
    CHOOSE i \in 1..Len(lines) :
        /\ Contains(lines[i], LineListMarker)
        /\ \A j \in 1..(i - 1) : ~Contains(lines[j], LineListMarker)

\* the marker is followed by a header line and at least two further lines
WellFormedLinelist(lines) ==
    /\ HasMarker(lines, LineListMarker)
    /\ Len(lines) >= FirstMarkerLine(lines) + 3

IsEscapeChar(c) == c \in {"\\", "\""}
ExpectedLabels(header) ==
    LET raw == Split(header, Comma)
    IN  [i \in 1..Len(raw) |-> SelectSeq(raw[i], LAMBDA c : ~IsEscapeChar(c))]

\* the fields of a line with the third-from-last and second-from-last made one
ExpectedCells(line) ==
    LET f == Split(line, Comma)
        k == Len(f)
    IN  IF k >= 3 THEN SubSeq(f, 1, k - 3) \o <<f[k - 2] \o f[k - 1], f[k]>>
        ELSE IF k = 2 THEN f
        ELSE <<<<>>, f[1]>>

LinelistCalled == parsed.fn = "parse_linelist"
PartitionCalled == parsed.fn = "parse_partition_func"

\* C8: a text with no line containing "Line list" makes parse_linelist raise,
\* and a text with no line containing "T/K" makes parse_partition_func raise;
\* neither returns a table for a text that lacks its marker.
C8_MissingMarkerRaises ==
    parsed.fn # "none" =>
        LET lines == Split(text, EscapedNewline)
        IN  /\ (LinelistCalled /\ ~HasMarker(lines, LineListMarker))
                 => ~parsed.result.ok
            /\ (PartitionCalled /\ ~HasMarker(lines, TKMarker))
                 => ~parsed.result.ok

C8_Witness ==
    /\ LinelistCalled
    /\ ~parsed.result.ok
    /\ LET lines == Split(text, EscapedNewline)
       IN  ~HasMarker(lines, LineListMarker) /\ Len(lines) >= 4

\* C9: every table parse_linelist returns has, for every retained row, exactly
\* as many parsed cells as header labels, and no cell filled in by padding.
C9_RowShapeChecked ==
    (LinelistCalled /\ parsed.result.ok) =>
        LET lines == Split(text, EscapedNewline)
            m == FirstMarkerLine(lines)
            n == Len(lines) - m - 1
        IN  WellFormedLinelist(lines) =>
                \A i \in 1..(n - 2) :
                    /\ Len(ExpectedCells(lines[m + 1 + i]))
                         = Len(parsed.result.columns)
                    /\ \A j \in 1..Len(parsed.result.rows[i]) :
                           parsed.result.rows[i][j] # NoneCell

RECURSIVE EscapeBytes(_)
EscapeBytes(b) ==
    IF b = <<>> THEN <<>>
    ELSE (IF Head(b) = "\n" THEN <<"\\", "n">>
          ELSE IF Head(b) = "\\" THEN <<"\\", "\\">>
          ELSE <<Head(b)>>) \o EscapeBytes(Tail(b))

StrOfBytes(b) == <<"b", "'">> \o EscapeBytes(b) \o <<"'">>

NL == <<"\n">>

\* what pgo may print: a line list, a partition table, a bare message, nothing
Stdouts ==
    { JoinWith(<< <<"L", "i", "n", "e", " ", "l", "i", "s", "t">>,
                  <<"\"", "A", "\"", ",", "B", ",", "C">>,
                  <<"1", ",", "2", ",", "3", ",", "4">>,
                  <<"e", "n", "d">>,
                  <<>> >>, NL),
      JoinWith(<< <<"T", "/", "K", " ", "Q", " ", "R">>,
                  <<"1", " ", "2", " ", "3">>,
                  <<"4", " ", "5", " ", "6">>,
                  <<>> >>, NL),
      <<"e", "r", "r", "o", "r">>,
      <<>> }

ExitCodes == {0, 1}

\* subprocess.run(keywords, capture_output=True): any exit status, any output
CompletedProcesses(args) ==
    { [args |-> args, returncode |-> rc, stdout |-> out] :
        rc \in ExitCodes, out \in Stdouts }

SimStart ==
    /\ pc = "idle" /\ filepath = "none" /\ temp = FALSE /\ runs = <<>>
    /\ linelist_df = None /\ q_df = None /\ outcome = "none"

\* lines 72-82: with no filepath, the document is written to a new .pgo file
SimulateCall ==
    /\ pc = "idle"
    /\ \E given \in BOOLEAN :
         IF given
         THEN /\ filepath' = "user"
              /\ UNCHANGED <<temp, files>>
         ELSE /\ filepath' = "temp"
              /\ temp' = TRUE
              /\ files' = files \cup {"temp"}
    /\ pc' = "run1"
    /\ UNCHANGED <<env, runs, linelist_df, q_df, outcome>>
    /\ UNCHANGED <<parseVars, cfgVars, docVars>>

Raise(exc) ==
    /\ outcome' = exc
    /\ pc' = "done"

\* utils.run_pgopher(filepath, *args), the k-th invocation of the call
run_pgopher(k, args, next) ==
    IF ~env.pgo_in_path[k]
    THEN Raise("FileNotFoundError") /\ UNCHANGED runs
    ELSE IF filepath \notin files
    THEN Raise("AssertionError") /\ UNCHANGED runs
    ELSE \E process \in CompletedProcesses(args) :
            /\ runs' = Append(runs, process)
            /\ pc' = next
            /\ UNCHANGED outcome

\* line 84
RunLinelist ==
    /\ pc = "run1"
    /\ run_pgopher(1, <<>>, "parse1")
    /\ UNCHANGED <<env, filepath, temp, files, linelist_df, q_df>>
    /\ UNCHANGED <<parseVars, cfgVars, docVars>>

\* line 85
ParseLinelistOutput ==
    /\ pc = "parse1"
    /\ LET df == parse_linelist(StrOfBytes(runs[Len(runs)].stdout))
       IN  IF df.ok
           THEN linelist_df' = df /\ pc' = "run2" /\ UNCHANGED outcome
           ELSE Raise(df.exc) /\ UNCHANGED linelist_df
    /\ UNCHANGED <<env, filepath, temp, files, runs, q_df>>
    /\ UNCHANGED <<parseVars, cfgVars, docVars>>

\* line 87
RunQtable ==
    /\ pc = "run2"
    /\ run_pgopher(2, <<"--qtable">>, "parse2")
    /\ UNCHANGED <<env, filepath, temp, files, linelist_df, q_df>>
    /\ UNCHANGED <<parseVars, cfgVars, docVars>>

\* line 88
ParseQtableOutput ==
    /\ pc = "parse2"
    /\ LET df == parse_partition_func(StrOfBytes(runs[Len(runs)].stdout))
       IN  IF df.ok
           THEN q_df' = df /\ pc' = "finish" /\ UNCHANGED outcome
           ELSE Raise(df.exc) /\ UNCHANGED q_df
    /\ UNCHANGED <<env, filepath, temp, files, runs, linelist_df>>
    /\ UNCHANGED <<parseVars, cfgVars, docVars>>

\* lines 89-91
SimulateReturn ==
    /\ pc = "finish"
    /\ files' = IF temp THEN files \ {filepath} ELSE files
    /\ outcome' = "returned"
    /\ pc' = "done"
    /\ UNCHANGED <<env, filepath, temp, runs, linelist_df, q_df>>
    /\ UNCHANGED <<parseVars, cfgVars, docVars>>

InitSim ==
    /\ SimStart
    /\ env \in [pgo_in_path : [1..2 -> BOOLEAN]]
    /\ files \in SUBSET {"user"}
    /\ ParseIdle /\ CfgIdle /\ DocIdle

NextSim ==
    \/ SimulateCall
    \/ RunLinelist
    \/ ParseLinelistOutput
    \/ RunQtable
    \/ ParseQtableOutput
    \/ SimulateReturn

SpecSim == InitSim /\ [][NextSim]_vars

(***************************************************************************)
(* Claims about simulate (SpecSim).                                        *)
(***************************************************************************)
SimulateEnded == pc = "done"

\* C1: the temporary file simulate creates when called with no filepath no
\* longer exists once the call has returned or has propagated an error.
C1_TempFileRemoved == (SimulateEnded /\ temp) => "temp" \notin files

\* C6: simulate never returns its pair of tables when either invocation of
\* pgo exited with a non-zero status, and it runs each invocation only once.
C6_NonZeroExitFails ==
    /\ Len(runs) <= 2
    /\ (SimulateEnded /\ outcome = "returned") =>
           \A k \in 1..Len(runs) : runs[k].returncode = 0


(***************************************************************************)
(* The constructors and their default-argument objects (SpecCfg).          *)
(* A dict is a function on CfgKeys whose value is Absent at the keys it    *)
(* does not hold. The heap is the sequence of the dict objects; an object  *)
(* is its position. Python evaluates a default argument once, when the     *)
(* function is defined, so each {} default below is one object of the heap *)
(* for the whole run. Values are the texts of Python literals.             *)
(***************************************************************************)
Absent == "<absent>"

CfgKeys ==
    { "Temperature", "Fmin", "Fmax", "OThreshold", "SmallE", "Npoints",
      "Name", "Jmax", "A", "B", "C", "DJ", "DJK", "DK", "deltaJ", "deltaK" }

\* the dict with the items of the record items
MakeDict(items) ==
    [k \in CfgKeys |-> IF k \in DOMAIN items THEN items[k] ELSE Absent]

EmptyDict == [k \in CfgKeys |-> Absent]

\* d.setdefault(key, value)
setdefault(d, key, value) == IF d[key] = Absent THEN [d EXCEPT ![key] = value] ELSE d

\* for key, value in defaults.items(): d.setdefault(key, value)
RECURSIVE SetDefaultsOver(_, _, _)
SetDefaultsOver(d, defaults, keys) ==
    IF keys = {} THEN d
    ELSE LET key == CHOOSE k \in keys : TRUE
         IN  SetDefaultsOver(setdefault(d, key, defaults[key]), defaults, keys \ {key})

SetDefaults(d, defaults) == SetDefaultsOver(d, defaults, DOMAIN defaults)

\* d.update(**other)
DictUpdate(d, other) == [k \in CfgKeys |-> IF other[k] # Absent THEN other[k] ELSE d[k]]

\* the default-argument objects: main.py lines 198, 256-258, 119-123
SimMixtureDefault == 1
SimSpeciesDefault == 2
MolSettingsDefault == 3
MolParametersDefault == 4
MolTransMomDefault == 5
RngMixtureDefault == 6
RngSpeciesDefault == 7
RngSettingsDefault == 8
RngParametersDefault == 9
RngTransMomDefault == 10

default_mixture ==
    [Temperature |-> "300.0", Fmin |-> "0.001", Fmax |-> "250000.0",
     OThreshold |-> "1e-4", SmallE |-> "2e-18"]
default_species == [Name |-> "Species", Jmax |-> "30"]
default_settings == [Name |-> "Molecule"]
default_parameters == [A |-> "24023.0", B |-> "2102.0", C |-> "1962.0"]

\* Simulation.__init__(mixture_kwargs, species_kwargs) on the heap h, the
\* arguments being objects of h: the new heap and the object's two mappings.
\* Line 212 rebinds species_kwargs to a new dict; the loop over it then
\* finds every key present.
SimulationInit(h, mixture_kwargs, species_kwargs) ==
    LET h1 == [h EXCEPT ![mixture_kwargs] = SetDefaults(h[mixture_kwargs], default_mixture)]
        rebound == MakeDict([Name |-> "Species", Jmax |-> "30"])
        h2 == Append(h1, SetDefaults(rebound, [Name |-> "Species", Jmax |-> "30"]))
    IN  [heap |-> h2,
         obj |-> [cls |-> "Simulation", mixture |-> mixture_kwargs, species |-> Len(h2)]]

\* Molecule.__init__(mol_type, settings, parameters, trans_mom), lines
\* 281-286, for a valid mol_type; self.trans_mom is a new mapping each time
MoleculeInit(h, settings, parameters) ==
    LET h1 == [h EXCEPT ![settings] = setdefault(h[settings], "Name", "Molecule")]
        h2 == [h1 EXCEPT ![parameters] = SetDefaults(h1[parameters], default_parameters)]
    IN  [heap |-> h2,
         obj |-> [cls |-> "Molecule", settings |-> settings, parameters |-> parameters]]

\* what a caller may pass for each argument
MixtureOverrides ==
    { MakeDict([Temperature |-> "10.0"]),
      MakeDict([Fmax |-> "5000.0", Npoints |-> "100"]) }
SpeciesOverrides ==
    { MakeDict([Jmax |-> "10"]),
      MakeDict([Name |-> "HCN", Jmax |-> "5"]) }
SettingsOverrides == { MakeDict([Name |-> "HCN"]) }
ParametersOverrides ==
    { MakeDict([A |-> "5000.0"]),
      MakeDict([B |-> "1500.0", C |-> "1200.0", DJ |-> "0.001"]) }

Omitted == EmptyDict
ArgChoices(overrides) == {Omitted} \cup overrides

\* the heap with a new dict for a passed argument, and the argument object:
\* the function's default object when the argument is omitted
PassArg(h, arg, default) ==
    IF arg = Omitted
    THEN [heap |-> h, id |-> default]
    ELSE [heap |-> Append(h, arg), id |-> Len(h) + 1]

\* the mappings a config holds, by field
Mappings(obj) ==
    IF obj.cls = "Simulation" THEN {obj.mixture, obj.species}
    ELSE IF obj.cls = "Molecule" THEN {obj.settings, obj.parameters}
    ELSE {obj.constants}

HeldBy(cs) == UNION {Mappings(cs[i]) : i \in 1..Len(cs)}

\* s = Simulation(...) by a caller
NewSimulation ==
    /\ Len(configs) < MaxCalls
    /\ \E m \in ArgChoices(MixtureOverrides), sp \in ArgChoices(SpeciesOverrides) :
         LET a1 == PassArg(heap, m, SimMixtureDefault)
             a2 == PassArg(a1.heap, sp, SimSpeciesDefault)
             r == SimulationInit(a2.heap, a1.id, a2.id)
         IN  /\ heap' = r.heap
             /\ configs' = Append(configs, r.obj)
             /\ call' = [cls |-> "Simulation",
                         passed |-> [mixture |-> m, species |-> sp],
                         got |-> [mixture |-> r.heap[r.obj.mixture],
                                  species |-> r.heap[r.obj.species]],
                         ids |-> Mappings(r.obj),
                         earlier |-> HeldBy(configs)]
    /\ UNCHANGED <<parseVars, simVars, docVars>>

\* m = Molecule(...) by a caller, with the default mol_type and trans_mom
NewMolecule ==
    /\ Len(configs) < MaxCalls
    /\ \E st \in ArgChoices(SettingsOverrides), pa \in ArgChoices(ParametersOverrides) :
         LET a1 == PassArg(heap, st, MolSettingsDefault)
             a2 == PassArg(a1.heap, pa, MolParametersDefault)
             r == MoleculeInit(a2.heap, a1.id, a2.id)
         IN  /\ heap' = r.heap
             /\ configs' = Append(configs, r.obj)
             /\ call' = [cls |-> "Molecule",
                         passed |-> [settings |-> st, parameters |-> pa],
                         got |-> [settings |-> r.heap[r.obj.settings],
                                  parameters |-> r.heap[r.obj.parameters]],
                         ids |-> Mappings(r.obj),
                         earlier |-> HeldBy(configs)]
    /\ UNCHANGED <<parseVars, simVars, docVars>>

\* PGopher.from_rng(...), lines 154-187: the random constants are a new dict,
\* updated with a non-empty parameters argument; the other arguments go on to
\* Molecule and Simulation as they are. The result keeps the constants dict.
cd_terms ==
    MakeDict([DJ |-> "rng", DJK |-> "rng", DK |-> "rng", deltaJ |-> "rng", deltaK |-> "rng"])

NewFromRng ==
    /\ Len(configs) < MaxCalls
    /\ \E distortion \in BOOLEAN,
          m \in ArgChoices(MixtureOverrides), st \in ArgChoices(SettingsOverrides),
          pa \in ArgChoices(ParametersOverrides) :
         LET a1 == PassArg(heap, m, RngMixtureDefault)
             a2 == PassArg(a1.heap, st, RngSettingsDefault)
             a3 == PassArg(a2.heap, pa, RngParametersDefault)
             random == MakeDict([C |-> "rng", B |-> "rng", A |-> "rng"])
             constants == DictUpdate(IF distortion THEN DictUpdate(random, cd_terms)
                                     ELSE random,
                                     a3.heap[a3.id])
             h4 == Append(a3.heap, constants)
             rm == MoleculeInit(h4, a2.id, Len(h4))
             rs == SimulationInit(rm.heap, a1.id, RngSpeciesDefault)
         IN  /\ heap' = rs.heap
             /\ configs' = Append(configs, [cls |-> "PGopher", constants |-> Len(h4)])
             /\ call' = [cls |-> "PGopher",
                         passed |-> [mixture |-> m, settings |-> st, parameters |-> pa],
                         got |-> [mixture |-> rs.heap[rs.obj.mixture],
                                  species |-> rs.heap[rs.obj.species],
                                  settings |-> rs.heap[rm.obj.settings],
                                  parameters |-> rs.heap[rm.obj.parameters]],
                         ids |-> {Len(h4)},
                         earlier |-> HeldBy(configs)]
    /\ UNCHANGED <<parseVars, simVars, docVars>>

\* a caller writes to a mapping a returned config holds: cfg.mapping[key] = value
MutatedKeys == {"Temperature", "Jmax", "Name", "A"}
MutatedValue == "changed"

MutateMapping ==
    /\ \E id \in HeldBy(configs), key \in MutatedKeys :
         /\ heap[id][key] \notin {Absent, MutatedValue}
         /\ heap' = [heap EXCEPT ![id][key] = MutatedValue]
    /\ UNCHANGED <<configs, call>>
    /\ UNCHANGED <<parseVars, simVars, docVars>>

NoCall == [cls |-> "none"]

InitCfg ==
    /\ heap = [i \in 1..RngTransMomDefault |-> EmptyDict]
    /\ configs = <<>>
    /\ call = NoCall
    /\ ParseIdle /\ SimIdle /\ DocIdle

NextCfg ==
    \/ NewSimulation
    \/ NewMolecule
    \/ NewFromRng
    \/ MutateMapping

SpecCfg == InitCfg /\ [][NextCfg]_vars

(***************************************************************************)
(* Claims about the constructors (SpecCfg).                                *)
(***************************************************************************)
\* the dict that holds m's items and the default for every other default key
Merged(m, defaults) ==
    [k \in CfgKeys |-> IF m[k] # Absent THEN m[k]
                       ELSE IF k \in DOMAIN defaults THEN defaults[k]
                       ELSE Absent]

\* C2: the group of a config constructed with the override mapping m holds m's
\* value for every key of m and the documented default for every default key
\* absent from m, for mixture, species, settings and parameters alike.
C2_DefaultMerge ==
    /\ call.cls = "Simulation" =>
         /\ call.passed.mixture # Omitted =>
              call.got.mixture = Merged(call.passed.mixture, default_mixture)
         /\ call.passed.species # Omitted =>
              call.got.species = Merged(call.passed.species, default_species)
    /\ call.cls = "Molecule" =>
         /\ call.passed.settings # Omitted =>
              call.got.settings = Merged(call.passed.settings, default_settings)
         /\ call.passed.parameters # Omitted =>
              call.got.parameters = Merged(call.passed.parameters, default_parameters)

\* C3: a Simulation() or Molecule() constructed with no override arguments,
\* after any earlier constructions and mutations, has exactly the documented
\* defaults, and its mappings are objects no earlier config holds.
C3_NoSharedState ==
    /\ (call.cls = "Simulation"
          /\ call.passed.mixture = Omitted /\ call.passed.species = Omitted) =>
         /\ call.got.mixture = MakeDict(default_mixture)
         /\ call.got.species = MakeDict(default_species)
         /\ call.ids \cap call.earlier = {}
    /\ (call.cls = "Molecule"
          /\ call.passed.settings = Omitted /\ call.passed.parameters = Omitted) =>
         /\ call.got.settings = MakeDict(default_settings)
         /\ call.got.parameters = MakeDict(default_parameters)
         /\ call.ids \cap call.earlier = {}


(***************************************************************************)
(* Molecule, the two to_element methods and PGopher.__init__ (SpecDoc).    *)
(* mol_type is a sequence of characters; a float is held as a number of    *)
(* halves (2 is 1.0) where the code compares it, and as the text of its    *)
(* literal elsewhere; an element is [tag, attrs, children] with attrs a    *)
(* sequence of <<name, value>> in the order they were set.                 *)
(***************************************************************************)
LowerAlphabet ==
    <<"a", "b", "c", "d", "e", "f", "g", "h", "i", "j", "k", "l", "m", "n", "o", "p", "q", "r", "s", "t", "u", "v", "w", "x", "y", "z">>
UpperAlphabet ==
    <<"A", "B", "C", "D", "E", "F", "G", "H", "I", "J", "K", "L", "M", "N", "O", "P", "Q", "R", "S", "T", "U", "V", "W", "X", "Y", "Z">>

AlphabetIndex(alphabet, c) == CHOOSE i \in 1..Len(alphabet) : alphabet[i] = c
InAlphabet(alphabet, c) == \E i \in 1..Len(alphabet) : alphabet[i] = c

\* str.upper() and str.lower() of one character
Upper(c) ==
    IF InAlphabet(LowerAlphabet, c) THEN UpperAlphabet[AlphabetIndex(LowerAlphabet, c)] ELSE c
Lower(c) ==
    IF InAlphabet(UpperAlphabet, c) THEN LowerAlphabet[AlphabetIndex(UpperAlphabet, c)] ELSE c

\* str.capitalize(): the first character upper-cased, the rest lower-cased
CapitalizeFirstOnly(s) ==
    [i \in 1..Len(s) |-> IF i = 1 THEN Upper(s[i]) ELSE s[i]]

Capitalize(s) ==
    [i \in 1..Len(s) |-> IF i = 1 THEN Upper(s[i]) ELSE Lower(s[i])]

\* the text of a sequence of characters
RECURSIVE Str(_)
Str(chars) == IF chars = <<>> THEN "" ELSE Head(chars) \o Str(Tail(chars))

Asymmetric == <<"A", "s", "y", "m", "m", "e", "t", "r", "i", "c">>
Linear == <<"L", "i", "n", "e", "a", "r">>
Symmetric == <<"S", "y", "m", "m", "e", "t", "r", "i", "c">>

\* line 278
RecognizedTypes == {Asymmetric, Linear, Symmetric}

\* str(n) of a natural number
Digits == <<"0", "1", "2", "3", "4", "5", "6", "7", "8", "9">>
RECURSIVE NatStr(_)
NatStr(n) == IF n < 10 THEN Digits[n + 1] ELSE NatStr(n \div 10) \o Digits[(n % 10) + 1]

\* str(x) of the float x = h/2
FloatStr(h) ==
    LET m == IF h < 0 THEN -h ELSE h
    IN  (IF h < 0 THEN "-" ELSE "") \o NatStr(m \div 2) \o "."
          \o (IF m % 2 = 0 THEN "0" ELSE "5")

\* str(x) of the values the defaults hold, by the text of the literal
PyStr(literal) ==
    CASE literal = "1e-4" -> "0.0001"
      [] literal = "2e-18" -> "2e-18"
      [] OTHER -> literal

\* TransitionMoment = namedtuple("TransitionMoment", "a b c",
\*                               defaults=[1.0, 0.0, 0.0]), line 32
Axes == <<"a", "b", "c">>
TransitionMomentDefaults == [a |-> 2, b |-> 0, c |-> 0]
AxisSet == {Axes[i] : i \in 1..Len(Axes)}

\* lines 287-289: every key that is not an axis is deleted
DropOtherKeys(trans_mom) ==
    [k \in {key \in DOMAIN trans_mom : key \in {"a", "b", "c"}} |-> trans_mom[k]]

\* line 291: TransitionMoment(**trans_mom)._asdict(); an unexpected keyword
\* is a TypeError
TransitionMomentOf(kwargs) ==
    IF DOMAIN kwargs \subseteq AxisSet
    THEN [ok |-> TRUE,
          value |-> [ax \in AxisSet |-> IF ax \in DOMAIN kwargs THEN kwargs[ax]
                                         ELSE TransitionMomentDefaults[ax]]]
    ELSE [ok |-> FALSE, exc |-> "TypeError"]

\* Molecule.__init__, lines 277-291, with settings and parameters omitted
\* in a process that has constructed nothing before
Molecule(mol_type, trans_mom) ==
    LET capitalized == Capitalize(mol_type)
        tm == TransitionMomentOf(DropOtherKeys(trans_mom))
    IN  IF capitalized \notin RecognizedTypes
        THEN [state |-> "raised", exc |-> "ValueError"]
        ELSE IF ~tm.ok THEN [state |-> "raised", exc |-> tm.exc]
        ELSE [state |-> "constructed",
              mol_type |-> capitalized,
              settings |-> << <<"Name", "Molecule">> >>,
              parameters |-> << <<"A", "24023.0">>, <<"B", "2102.0">>,
                                <<"C", "1962.0">> >>,
              trans_mom |-> tm.value]

Element(tag, attrs, children) == [tag |-> tag, attrs |-> attrs, children |-> children]

\* a Parameter node with Name and Value
Parameter(name, value) ==
    Element("Parameter", << <<"Name", name>>, <<"Value", value>> >>, <<>>)

\* lines 330-338: the nodes of the axes from position i on
IncludeNonNegative(value) == value >= 0

IncludeAxis(value) == value > 0

RECURSIVE Moments(_, _)
Moments(trans_mom, i) ==
    IF i > Len(Axes) THEN <<>>
    ELSE (IF IncludeAxis(trans_mom[Axes[i]])
          THEN << Element("CartesianTransitionMoment",
                          << <<"Bra", "v=0">>, <<"Ket", "v=0">>, <<"Axis", Axes[i]>> >>,
                          << Parameter("Strength", FloatStr(trans_mom[Axes[i]])) >>) >>
          ELSE <<>>) \o Moments(trans_mom, i + 1)

\* Molecule.to_element, lines 304-343
Molecule_to_element(self) ==
    LET name == Str(self.mol_type)
        hamiltonian ==
            Element(IF name # "Linear" THEN name \o "Top" ELSE name,
                    << <<"Name", "v=0">> >>
                      \o (IF name = "Asymmetric" THEN << <<"Symmetry", "A">> >> ELSE <<>>),
                    [i \in 1..Len(self.parameters) |->
                        Parameter(self.parameters[i][1], PyStr(self.parameters[i][2]))])
        manifold ==
            Element(name \o "Manifold",
                    << <<"Name", "Ground">>, <<"Initial", "True">> >>,
                    <<hamiltonian>>)
        transition ==
            Element("TransitionMoments",
                    << <<"Bra", "Ground">>, <<"Ket", "Ground">> >>,
                    Moments(self.trans_mom, 1))
    IN  Element(name \o "Molecule", self.settings, <<manifold, transition>>)

\* Simulation.to_element, lines 228-246, of a Simulation with the mixture
\* items given and the species of line 212
Simulation_to_element(mixture) ==
    LET species == << <<"Name", "Species">>, <<"Jmax", "30">> >>
        parameters == [i \in 1..Len(mixture) |->
                          Parameter(mixture[i][1], PyStr(mixture[i][2]))]
    IN  Element("Mixture",
                << <<"Units", "MHz">>, <<"PlotUnits", "MHz">>,
                   <<"IntensityUnits", "nm2MHzperMolecule">>,
                   <<"PrintLevel", "CSV">> >>,
                parameters
                  \o << Element("Species",
                                [i \in 1..Len(species) |->
                                    <<species[i][1], PyStr(species[i][2])>>],
                                <<>>) >>)

\* the mixture of Simulation() and of Simulation({"Temperature": 10.0})
MixtureItems ==
    { << <<"Temperature", "300.0">>, <<"Fmin", "0.001">>, <<"Fmax", "250000.0">>,
         <<"OThreshold", "1e-4">>, <<"SmallE", "2e-18">> >>,
      << <<"Temperature", "10.0">>, <<"Fmin", "0.001">>, <<"Fmax", "250000.0">>,
         <<"OThreshold", "1e-4">>, <<"SmallE", "2e-18">> >> }

\* PGopher.__init__, line 40: self.simulation[-1].append(molecule)
AppendToRoot(simulation, molecule) ==
    [simulation EXCEPT !.children = Append(@, molecule)]

PGopherInit(simulation, molecule) ==
    LET last == Len(simulation.children)
    IN  [simulation EXCEPT !.children[last].children = Append(@, molecule)]

\* the arguments of the Molecule(...) calls
CaseVariants(name) ==
    { [i \in 1..Len(name) |-> IF i \in S THEN Upper(name[i]) ELSE Lower(name[i])] :
        S \in SUBSET (1..Len(name)) }

UnrecognizedNames ==
    { <<>>,
      <<"S", "p", "h", "e", "r", "i", "c", "a", "l">>,
      <<"L", "i", "n", "e", "a">>,
      <<"l", "i", "n", "e", "a", "r", "r">>,
      <<" ", "l", "i", "n", "e", "a", "r">>,
      <<"S", "Y", "M", "M", "E", "T", "R", "I", "C", " ">>,
      <<"a", "s", "y", "m", "m", "e", "t", "r", "i", "c", " ", "t", "o", "p">>,
      <<"a", "-", "s", "y", "m", "m", "e", "t", "r", "i", "c">> }

TransKeys == {"a", "b", "c", "x"}
TransValues == {-1, 0, 1, 2, 25}
TransMoms == UNION { [keys -> TransValues] : keys \in SUBSET TransKeys }
NoTransMom == [k \in {} |-> 0]

MolInputs ==
    { [mol_type |-> t, trans_mom |-> NoTransMom] :
        t \in UnrecognizedNames \cup UNION {CaseVariants(n) : n \in RecognizedTypes} }
    \cup
    { [mol_type |-> t, trans_mom |-> tm] :
        t \in {[i \in 1..Len(n) |-> Lower(n[i])] : n \in RecognizedTypes},
        tm \in TransMoms }

NoObject == [state |-> "none"]

\* mol = Molecule(mol_type, trans_mom=trans_mom)
MoleculeCall ==
    /\ mol.state = "none"
    /\ mol' = Molecule(mol_in.mol_type, mol_in.trans_mom)
    /\ UNCHANGED <<mol_in, mol_elem, sim_elem, doc>>
    /\ UNCHANGED <<parseVars, simVars, cfgVars>>

\* mol.to_element()
MoleculeToElement ==
    /\ mol.state = "constructed"
    /\ mol_elem.state = "none"
    /\ mol_elem' = [state |-> "built", root |-> Molecule_to_element(mol)]
    /\ UNCHANGED <<mol_in, mol, sim_elem, doc>>
    /\ UNCHANGED <<parseVars, simVars, cfgVars>>

\* Simulation(...).to_element()
SimulationToElement ==
    /\ sim_elem.state = "none"
    /\ \E mixture \in MixtureItems :
         sim_elem' = [state |-> "built", root |-> Simulation_to_element(mixture)]
    /\ UNCHANGED <<mol_in, mol, mol_elem, doc>>
    /\ UNCHANGED <<parseVars, simVars, cfgVars>>

\* PGopher(sim.to_element(), mol.to_element()), as from_yml and from_rng do
Compose ==
    /\ sim_elem.state = "built"
    /\ mol_elem.state = "built"
    /\ doc.state = "none"
    /\ doc' = [state |-> "built", root |-> PGopherInit(sim_elem.root, mol_elem.root)]
    /\ UNCHANGED <<mol_in, mol, mol_elem, sim_elem>>
    /\ UNCHANGED <<parseVars, simVars, cfgVars>>

InitDoc ==
    /\ mol_in \in MolInputs
    /\ mol = NoObject /\ mol_elem = NoObject /\ sim_elem = NoObject /\ doc = NoObject
    /\ ParseIdle /\ SimIdle /\ CfgIdle

NextDoc ==
    \/ MoleculeCall
    \/ MoleculeToElement
    \/ SimulationToElement
    \/ Compose

SpecDoc == InitDoc /\ [][NextDoc]_vars


(***************************************************************************)
(* Claims about the document (SpecDoc).                                    *)
(***************************************************************************)
DocBuilt == doc.state = "built"
LastChild(node) == node.children[Len(node.children)]
MoleculeTags == {"AsymmetricMolecule", "LinearMolecule", "SymmetricMolecule"}

AxisValue(ax) ==
    IF ax \in DOMAIN mol_in.trans_mom THEN mol_in.trans_mom[ax]
    ELSE TransitionMomentDefaults[ax]

MomentNode(ax) ==
    [tag |-> "CartesianTransitionMoment",
     attrs |-> << <<"Bra", "v=0">>, <<"Ket", "v=0">>, <<"Axis", ax>> >>,
     children |-> << [tag |-> "Parameter",
                      attrs |-> << <<"Name", "Strength">>,
                                   <<"Value", FloatStr(AxisValue(ax))>> >>,
                      children |-> <<>>] >>]

\* C5: the TransitionMoments node holds exactly one CartesianTransitionMoment
\* child for each axis whose value is > 0, in the order a, b, c, each with its
\* Axis and one Strength Parameter holding the value's string form, and none
\* for an axis whose value is <= 0 or for a key that is not an axis.
C5_ZeroAxisOmission ==
    mol_elem.state = "built" =>
        LET positive == SelectSeq(Axes, LAMBDA ax : AxisValue(ax) > 0)
            transition == mol_elem.root.children[2]
        IN  /\ transition.tag = "TransitionMoments"
            /\ transition.children =
                   [i \in 1..Len(positive) |-> MomentNode(positive[i])]

C5_Witness ==
    /\ mol_elem.state = "built"
    /\ DOMAIN mol_in.trans_mom = TransKeys
    /\ mol_in.trans_mom["a"] = 0
    /\ mol_in.trans_mom["b"] = 1
    /\ mol_in.trans_mom["c"] = 25
    /\ mol_in.trans_mom["x"] = 2
    /\ Len(mol_elem.root.children[2].children) = 2

EqualIgnoringCase(s, t) ==
    /\ Len(s) = Len(t)
    /\ \A i \in 1..Len(s) : Lower(s[i]) = Lower(t[i])

\* C7: Molecule construction raises, and produces no object, for every
\* mol_type that is not Asymmetric, Symmetric or Linear ignoring case; for
\* every case variant of the three it succeeds and stores the title-case name.
C7_TopologyValidated ==
    mol.state # "none" =>
        IF \E n \in {Asymmetric, Symmetric, Linear} :
               EqualIgnoringCase(mol_in.mol_type, n)
        THEN /\ mol.state = "constructed"
             /\ mol.mol_type \in {Asymmetric, Symmetric, Linear}
             /\ EqualIgnoringCase(mol_in.mol_type, mol.mol_type)
        ELSE mol.state = "raised"

C7_Witness ==
    /\ mol.state = "constructed"
    /\ mol.mol_type = Symmetric
    /\ mol_in.mol_type[1] = "s"
    /\ mol_in.mol_type[2] = "Y"
    /\ mol_in.mol_type[9] = "C"


====
